---- MODULE Spec2Model ----
(***************************************************************************)
(* Discussion-Group: the text-to-speech playback controllers of the        *)
(* resource view and of the announcements view, the WAV encoder and the    *)
(* generateTTS wrapper of services/gemini.ts, the resource list and its    *)
(* search, the chat view, the admin upload queue and the App's admin gate. *)
(*                                                                         *)
(* The specifications share the module:                                    *)
(*   SpecRV     the resource view's TTS controller (ResourceView)          *)
(*   SpecAV     the announcements view's TTS controller (AnnouncementView) *)
(*   SpecWav    audioBufferToWav applied to a bounded family of buffers    *)
(*   SpecQuant  its quantization step applied to a fine grid of samples    *)
(*   SpecTTS    generateTTS applied to every outcome of its external calls *)
(*   SpecList   the resource view's list fetch and search                  *)
(*   SpecChat   the chat view (SpecChatFair: with its callbacks scheduled) *)
(*   SpecUpload the admin upload queue                                     *)
(*   SpecApp    the App's user, view switch and announcement admin actions *)
(***************************************************************************)
EXTENDS Integers, Sequences, FiniteSets, TLC

VARIABLES
    \* ---- ResourceView (src/unnamed/part_001) ----
    step,               \* 'unit' | 'type' | 'list' | 'search'
    playingResourceId,  \* useState<string | null>
    generatingAudioId,  \* useState<string | null>
    audioCache,         \* useState<Record<string, string>>: id -> url
    currentAudioRef,    \* useRef<HTMLAudioElement | null>: index into audios
    audios,             \* every Audio element the view has created
    inFlight,           \* generateTTS calls awaiting their result
    genCount,           \* generateTTS calls issued so far
    mounted,            \* the view has not been torn down
    lastRequest,        \* history: the latest handlePlayTTS call
    alertMsg,           \* the alert() dialog on screen, "none" when there is none
    \* ---- AnnouncementView (src/components/AnnouncementView.tsx) ----
    playingId,          \* useState<string | null>
    audioMap,           \* useState<Record<string, string>>
    avAudios,           \* every Audio element the view has created
    avInFlight,         \* generateTTS calls awaiting their result
    avGenCount,         \* generateTTS calls issued so far
    avLastRequest,      \* history: the latest click on a Listen button
    avAlertMsg,         \* the alert() dialog on screen, "none" when there is none
    \* ---- audioBufferToWav (src/services/gemini.ts) ----
    wavBuffer,          \* the AudioBuffer handed to the encoder
    wavOut,             \* the bytes of the Blob it returned
    wavQuantized,       \* history: <<sample, int16>> of every sample it scaled
    wavPc,              \* "ready" before the call, "done" after it
    \* ---- the quantization step of audioBufferToWav, on a fine grid ----
    qSample,            \* a sample, as a numerator over FineDen
    qOut,               \* the 16-bit value emitted for it
    qPc,                \* "ready" before the step, "done" after it
    \* ---- generateTTS (src/services/gemini.ts) ----
    ttsApi,             \* what ai.models.generateContent does
    ttsDecode,          \* what the AudioContext / decodeAudioData do
    ttsResult,          \* the TTSResponse the promise resolved with
    ttsPc,              \* "ready" | "resolved" | "rejected"
    \* ---- ChatView (src/unnamed/part_002) ----
    messages,           \* useState<Message[]>
    input,              \* useState(''): the text of the input box, as tokens
    isLoading,          \* useState(false)
    isRecording,        \* useState(false)
    isTranscribing,     \* useState(false)
    submitPc,           \* handleSubmit: "idle" | "sending" | "streaming"
    aiMessageId,        \* handleSubmit: the id of the placeholder message
    fullText,           \* handleSubmit: the chunks received so far
    recorderPc,         \* "none" | "recording" | "stopping" | "reading" | "transcribing"
    recCount,           \* recordings started so far
    chatAlert,          \* the alert() dialog of startRecording is on screen
    \* ---- AdminUploadView (src/unnamed/part_000) ----
    queue,              \* useState<QueuedResource[]>: [id, status]
    isGlobalUploading,  \* useState(false)
    batches,            \* the handleUploadAll calls that are running
    written,            \* ids of the items whose db add resolved
    removedPending,     \* history: ids removed from the queue while pending
    nextItemId,         \* items added so far, plus one
    \* ---- ResourceView, the list and its search (src/unnamed/part_001) ----
    selectedUnit,       \* useState<string>(''), Null for ''
    selectedType,       \* useState<string>(''), Null for ''
    resources,          \* useState<Resource[]>: the ids of the documents listed
    loading,            \* useState(false)
    searchQuery,        \* useState(''): the text of the search box
    fetches,            \* the collection reads awaiting their snapshot
    fetchCount,         \* collection reads issued so far
    lastSearch,         \* history: the latest performSearch and whether it completed
    \* ---- App and the announcements of AnnouncementView ----
    user,               \* useState<User | null>(null)
    appLoading,         \* App's useState(true), "loading" in the source
    currentView,        \* useState<ViewType>('discussion')
    announcementDocs,   \* the ids of the documents of the announcements collection
    pendingWrites,      \* add / delete calls on that collection, awaited
    postCount,          \* add calls issued so far
    lastInvoked         \* history: the handler invoked last, and for which user

rvVars  == <<step, playingResourceId, generatingAudioId, audioCache,
             currentAudioRef, audios, inFlight, genCount, mounted, lastRequest,
             alertMsg>>
avVars  == <<playingId, audioMap, avAudios, avInFlight, avGenCount,
             avLastRequest, avAlertMsg>>
wavVars == <<wavBuffer, wavOut, wavQuantized, wavPc>>
quantVars == <<qSample, qOut, qPc>>
ttsVars == <<ttsApi, ttsDecode, ttsResult, ttsPc>>
chatVars == <<messages, input, isLoading, isRecording, isTranscribing, submitPc,
              aiMessageId, fullText, recorderPc, recCount, chatAlert>>
uploadVars == <<queue, isGlobalUploading, batches, written, removedPending,
                nextItemId>>
listVars == <<selectedUnit, selectedType, resources, loading, searchQuery,
              fetches, fetchCount, lastSearch>>
rvTtsVars == <<playingResourceId, generatingAudioId, audioCache, currentAudioRef,
               audios, inFlight, genCount, mounted, lastRequest, alertMsg>>
appVars == <<user, appLoading, currentView, announcementDocs, pendingWrites,
             postCount, lastInvoked>>
restVars == <<ttsVars, chatVars, uploadVars, listVars, appVars>>
vars    == <<rvVars, avVars, wavVars, quantVars, restVars>>

(***************************************************************************)
(* Bounds of the model.                                                    *)
(***************************************************************************)
NumResources == 2
MaxAudios == 2
MaxGenerations == 2
AvMaxAudios == 2
AvMaxGenerations == 3
FineDen == 40000
MaxFrames == 46
MaxChannels == 2
MaxSeed == 10
SampleDen == 4
NumAnnouncements == 2

Null == 0
ResourceIds == 1..NumResources
AnnouncementIds == 1..NumAnnouncements

(***************************************************************************)
(* Audio elements.  An element is a record [rid, url, st]; st is           *)
(* "playing" after play(), "paused" after pause(), "ended" after the       *)
(* stream ran to its end and "error" after a playback fault.               *)
(***************************************************************************)
NewAudio(rid, url) == [rid |-> rid, url |-> url, st |-> "playing"]

\* HTMLAudioElement.pause() on element i of the list as
Pause(as, i) ==
    IF as[i].st = "playing" THEN [as EXCEPT ![i].st = "paused"] ELSE as

Playing(as) == {i \in DOMAIN as : as[i].st = "playing"}

(***************************************************************************)
(* ResourceView                                                            *)
(***************************************************************************)
RVInit ==
    /\ step = "unit"
    /\ playingResourceId = Null
    /\ generatingAudioId = Null
    /\ audioCache = [r \in ResourceIds |-> Null]
    /\ currentAudioRef = Null
    /\ audios = <<>>
    /\ inFlight = {}
    /\ genCount = 0
    /\ mounted = TRUE
    /\ lastRequest = [rid |-> Null, off |-> FALSE]
    /\ alertMsg = "none"

\* handleStopTTS: the audio list it leaves (the ref and the playing id are
\* set to null by the callers below, as lines 144 and 146 do).
StoppedAudios ==
    IF currentAudioRef # Null THEN Pause(audios, currentAudioRef) ELSE audios

handleStopTTS ==
    /\ audios' = StoppedAudios
    /\ currentAudioRef' = Null
    /\ playingResourceId' = Null

\* The Read Aloud / Stop Reading button of resource r is rendered in the list
\* of the 'list' and 'search' steps and is disabled while r is generating.
PlayButtonEnabled(r) ==
    /\ mounted
    /\ step \in {"list", "search"}
    /\ generatingAudioId # r

\* The toggle that resets the state and leaves the element playing.
PlayToggleOffNoPause(r) ==
    /\ playingResourceId = r
    /\ currentAudioRef' = Null
    /\ playingResourceId' = Null
    /\ lastRequest' = [rid |-> r, off |-> TRUE]
    /\ UNCHANGED <<step, generatingAudioId, audioCache, audios, inFlight,
                   genCount, mounted>>

\* handlePlayTTS, lines 152-156: the resource is the one playing.
PlayToggleOff(r) ==
    /\ playingResourceId = r
    /\ handleStopTTS
    /\ lastRequest' = [rid |-> r, off |-> TRUE]
    /\ UNCHANGED <<step, generatingAudioId, audioCache, inFlight, genCount, mounted>>

\* handlePlayTTS, lines 158-179: stop whatever the ref holds, then play the
\* cached url.
PlayCached(r) ==
    /\ playingResourceId # r
    /\ audioCache[r] # Null
    /\ Len(audios) < MaxAudios
    /\ audios' = Append(StoppedAudios, NewAudio(r, audioCache[r]))
    /\ currentAudioRef' = Len(audios) + 1
    /\ playingResourceId' = r
    /\ lastRequest' = [rid |-> r, off |-> FALSE]
    /\ UNCHANGED <<step, generatingAudioId, audioCache, inFlight, genCount, mounted>>

\* The cache-miss branch taken without looking at the cache.
PlayGenerateIgnoringCache(r) ==
    /\ playingResourceId # r
    /\ genCount < MaxGenerations
    /\ IF currentAudioRef # Null
       THEN handleStopTTS
       ELSE UNCHANGED <<audios, currentAudioRef, playingResourceId>>
    /\ generatingAudioId' = r
    /\ genCount' = genCount + 1
    /\ inFlight' = inFlight \cup {[rid |-> r, url |-> genCount + 1]}
    /\ lastRequest' = [rid |-> r, off |-> FALSE]
    /\ UNCHANGED <<step, audioCache, mounted>>

\* handlePlayTTS, lines 158-183: stop whatever the ref holds, then mark r as
\* generating and call generateTTS; the handler is suspended at the await.
PlayGenerate(r) ==
    /\ playingResourceId # r
    /\ audioCache[r] = Null
    /\ genCount < MaxGenerations
    /\ IF currentAudioRef # Null
       THEN handleStopTTS
       ELSE UNCHANGED <<audios, currentAudioRef, playingResourceId>>
    /\ generatingAudioId' = r
    /\ genCount' = genCount + 1
    /\ inFlight' = inFlight \cup {[rid |-> r, url |-> genCount + 1]}
    /\ lastRequest' = [rid |-> r, off |-> FALSE]
    /\ UNCHANGED <<step, audioCache, mounted>>

handlePlayTTS(r) ==
    /\ alertMsg = "none"
    /\ PlayButtonEnabled(r)
    /\ \/ PlayToggleOff(r)
       \/ PlayCached(r)
       \/ PlayGenerate(r)
    /\ UNCHANGED <<avVars, wavVars, quantVars, restVars>>
    /\ UNCHANGED alertMsg

\* The cache written by the continuation after the await (line 188).
CachePut(cache, rid, url) == [cache EXCEPT ![rid] = url]

\* The continuation that plays the generated audio and stores nothing.
GenerationSuccessNoCachePut(g) ==
    /\ alertMsg = "none"
    /\ g \in inFlight
    /\ Len(audios) < MaxAudios
    /\ inFlight' = inFlight \ {g}
    /\ audios' = Append(audios, NewAudio(g.rid, g.url))
    /\ currentAudioRef' = Len(audios) + 1
    /\ IF mounted
       THEN /\ generatingAudioId' = Null
            /\ playingResourceId' = g.rid
       ELSE UNCHANGED <<generatingAudioId, playingResourceId>>
    /\ UNCHANGED <<step, audioCache, genCount, mounted, lastRequest>>
    /\ UNCHANGED <<avVars, wavVars, quantVars, restVars>>
    /\ UNCHANGED alertMsg

\* The continuation that stores { [id]: audioUrl } without the earlier
\* entries.
GenerationSuccessReplacingCache(g) ==
    /\ alertMsg = "none"
    /\ g \in inFlight
    /\ Len(audios) < MaxAudios
    /\ inFlight' = inFlight \ {g}
    /\ audios' = Append(audios, NewAudio(g.rid, g.url))
    /\ currentAudioRef' = Len(audios) + 1
    /\ IF mounted
       THEN /\ generatingAudioId' = Null
            /\ audioCache' = [r \in ResourceIds |-> IF r = g.rid THEN g.url ELSE Null]
            /\ playingResourceId' = g.rid
       ELSE UNCHANGED <<generatingAudioId, audioCache, playingResourceId>>
    /\ UNCHANGED <<step, genCount, mounted, lastRequest>>
    /\ UNCHANGED <<avVars, wavVars, quantVars, restVars>>
    /\ UNCHANGED alertMsg

\* handlePlayTTS resumed with { audioUrl }: lines 185-201.  After the view is
\* unmounted the state setters are no-ops; the ref and the element are not.
GenerationSuccess(g) ==
    /\ alertMsg = "none"
    /\ g \in inFlight
    /\ Len(audios) < MaxAudios
    /\ inFlight' = inFlight \ {g}
    /\ audios' = Append(audios, NewAudio(g.rid, g.url))
    /\ currentAudioRef' = Len(audios) + 1
    /\ IF mounted
       THEN /\ generatingAudioId' = Null
            /\ audioCache' = CachePut(audioCache, g.rid, g.url)
            /\ playingResourceId' = g.rid
       ELSE UNCHANGED <<generatingAudioId, audioCache, playingResourceId>>
    /\ UNCHANGED <<step, genCount, mounted, lastRequest>>
    /\ UNCHANGED <<avVars, wavVars, quantVars, restVars>>
    /\ UNCHANGED alertMsg

\* The failure branch that leaves the generating id set.
GenerationFailureStillGenerating(g) ==
    /\ alertMsg = "none"
    /\ g \in inFlight
    /\ inFlight' = inFlight \ {g}
    /\ alertMsg' = "TTS Error"
    /\ UNCHANGED <<step, playingResourceId, generatingAudioId, audioCache,
                   currentAudioRef, audios, genCount, mounted, lastRequest>>
    /\ UNCHANGED <<avVars, wavVars, quantVars, restVars>>

\* handlePlayTTS resumed with { error }: lines 185 and 202-204.
GenerationFailure(g) ==
    /\ alertMsg = "none"
    /\ g \in inFlight
    /\ inFlight' = inFlight \ {g}
    /\ generatingAudioId' = IF mounted THEN Null ELSE generatingAudioId
    /\ UNCHANGED <<step, playingResourceId, audioCache, currentAudioRef, audios,
                   genCount, mounted, lastRequest>>
    /\ UNCHANGED <<avVars, wavVars, quantVars, restVars>>
    /\ alertMsg' = "TTS Error"

\* The onended callback that resets the playing id and keeps the ref.
AudioEndedKeepsRef(i) ==
    /\ alertMsg = "none"
    /\ i \in Playing(audios)
    /\ audios' = [audios EXCEPT ![i].st = "ended"]
    /\ playingResourceId' = IF mounted THEN Null ELSE playingResourceId
    /\ UNCHANGED <<step, generatingAudioId, audioCache, currentAudioRef, inFlight,
                   genCount, mounted, lastRequest, alertMsg>>
    /\ UNCHANGED <<avVars, wavVars, quantVars, restVars>>

\* audio.onended of element i (lines 169-172 and 193-196).
AudioEnded(i) ==
    /\ alertMsg = "none"
    /\ i \in Playing(audios)
    /\ audios' = [audios EXCEPT ![i].st = "ended"]
    /\ playingResourceId' = IF mounted THEN Null ELSE playingResourceId
    /\ currentAudioRef' = Null
    /\ UNCHANGED <<step, generatingAudioId, audioCache, inFlight, genCount,
                   mounted, lastRequest>>
    /\ UNCHANGED <<avVars, wavVars, quantVars, restVars>>
    /\ UNCHANGED alertMsg

\* audio.onerror of element i (lines 173-177 and 197-201).
AudioError(i) ==
    /\ alertMsg = "none"
    /\ i \in Playing(audios)
    /\ audios' = [audios EXCEPT ![i].st = "error"]
    /\ playingResourceId' = IF mounted THEN Null ELSE playingResourceId
    /\ currentAudioRef' = Null
    /\ UNCHANGED <<step, generatingAudioId, audioCache, inFlight, genCount,
                   mounted, lastRequest>>
    /\ UNCHANGED <<avVars, wavVars, quantVars, restVars>>
    /\ alertMsg' = "Error playing audio"

\* The Back handler that pauses the element and clears the ref but leaves the
\* playing id set.
handleBackKeepsPlayingId ==
    /\ alertMsg = "none"
    /\ mounted
    /\ step # "unit"
    /\ IF currentAudioRef # Null
       THEN /\ audios' = Pause(audios, currentAudioRef)
            /\ currentAudioRef' = Null
       ELSE UNCHANGED <<audios, currentAudioRef>>
    /\ step' = CASE step = "search" -> "unit"
                 [] step = "list" -> "type"
                 [] step = "type" -> "unit"
    /\ UNCHANGED <<playingResourceId, generatingAudioId, audioCache, inFlight,
                   genCount, mounted, lastRequest>>
    /\ UNCHANGED <<avVars, wavVars, quantVars, restVars>>
    /\ UNCHANGED alertMsg

\* handleBack, lines 101-117 (the Back buttons of the 'type', 'list' and
\* 'search' steps and the clear button of the search box).
handleBack ==
    /\ alertMsg = "none"
    /\ mounted
    /\ step # "unit"
    /\ IF currentAudioRef # Null
       THEN /\ audios' = Pause(audios, currentAudioRef)
            /\ currentAudioRef' = Null
            /\ playingResourceId' = Null
       ELSE UNCHANGED <<audios, currentAudioRef, playingResourceId>>
    /\ step' = CASE step = "search" -> "unit"
                 [] step = "list" -> "type"
                 [] step = "type" -> "unit"
    /\ UNCHANGED <<generatingAudioId, audioCache, inFlight, genCount, mounted,
                   lastRequest>>
    /\ UNCHANGED <<avVars, wavVars, quantVars, restVars>>
    /\ UNCHANGED alertMsg

\* handleUnitSelect, lines 89-93.
handleUnitSelect ==
    /\ alertMsg = "none"
    /\ mounted
    /\ step = "unit"
    /\ step' = "type"
    /\ UNCHANGED <<playingResourceId, generatingAudioId, audioCache,
                   currentAudioRef, audios, inFlight, genCount, mounted, lastRequest>>
    /\ UNCHANGED <<avVars, wavVars, quantVars, restVars>>
    /\ UNCHANGED alertMsg

\* handleTypeSelect, lines 95-99.
handleTypeSelect ==
    /\ alertMsg = "none"
    /\ mounted
    /\ step = "type"
    /\ step' = "list"
    /\ UNCHANGED <<playingResourceId, generatingAudioId, audioCache,
                   currentAudioRef, audios, inFlight, genCount, mounted, lastRequest>>
    /\ UNCHANGED <<avVars, wavVars, quantVars, restVars>>
    /\ UNCHANGED alertMsg

\* performSearch with a non-blank query, lines 60-66 (the search box is shown
\* at every step).
performSearch ==
    /\ alertMsg = "none"
    /\ mounted
    /\ step' = "search"
    /\ UNCHANGED <<playingResourceId, generatingAudioId, audioCache,
                   currentAudioRef, audios, inFlight, genCount, mounted, lastRequest>>
    /\ UNCHANGED <<avVars, wavVars, quantVars, restVars>>
    /\ UNCHANGED alertMsg

\* The "Units" breadcrumb, line 224: setStep('unit') and nothing else.
breadcrumbUnits ==
    /\ alertMsg = "none"
    /\ mounted
    /\ step' = "unit"
    /\ UNCHANGED <<playingResourceId, generatingAudioId, audioCache,
                   currentAudioRef, audios, inFlight, genCount, mounted, lastRequest>>
    /\ UNCHANGED <<avVars, wavVars, quantVars, restVars>>
    /\ UNCHANGED alertMsg

\* The cleanup of the useEffect, lines 33-40.
unmount ==
    /\ alertMsg = "none"
    /\ mounted
    /\ mounted' = FALSE
    /\ audios' = StoppedAudios
    /\ currentAudioRef' = Null
    /\ UNCHANGED <<step, playingResourceId, generatingAudioId, audioCache,
                   inFlight, genCount, lastRequest>>
    /\ UNCHANGED <<avVars, wavVars, quantVars, restVars>>
    /\ UNCHANGED alertMsg

\* The user closes the alert() dialog of line 176, 200 or 203; until then the
\* page runs no handler and no callback.
dismissAlert ==
    /\ alertMsg # "none"
    /\ alertMsg' = "none"
    /\ UNCHANGED <<step, playingResourceId, generatingAudioId, audioCache,
                   currentAudioRef, audios, inFlight, genCount, mounted, lastRequest>>
    /\ UNCHANGED <<avVars, wavVars, quantVars, restVars>>

RVNext ==
    \/ \E r \in ResourceIds : handlePlayTTS(r)
    \/ \E g \in inFlight : GenerationSuccess(g)
    \/ \E g \in inFlight : GenerationFailure(g)
    \/ \E i \in DOMAIN audios : AudioEnded(i)
    \/ \E i \in DOMAIN audios : AudioError(i)
    \/ handleBack
    \/ handleUnitSelect
    \/ handleTypeSelect
    \/ performSearch
    \/ breadcrumbUnits
    \/ unmount
    \/ dismissAlert

(***************************************************************************)
(* AnnouncementView                                                        *)
(***************************************************************************)
AVInit ==
    /\ playingId = Null
    /\ audioMap = [a \in AnnouncementIds |-> Null]
    /\ avAudios = <<>>
    /\ avInFlight = {}
    /\ avGenCount = 0
    /\ avLastRequest = [rid |-> Null, wasPlaying |-> FALSE]
    /\ avAlertMsg = "none"

\* handlePlayTTS, lines 60-67: the cached url is played.
ListenCached(a) ==
    /\ audioMap[a] # Null
    /\ Len(avAudios) < AvMaxAudios
    /\ avAudios' = Append(avAudios, NewAudio(a, audioMap[a]))
    /\ playingId' = a
    /\ UNCHANGED <<audioMap, avInFlight, avGenCount>>

\* handlePlayTTS, lines 69-71: generateTTS is called; the handler is
\* suspended at the await.
ListenGenerate(a) ==
    /\ audioMap[a] = Null
    /\ avGenCount < AvMaxGenerations
    /\ playingId' = a
    /\ avGenCount' = avGenCount + 1
    /\ avInFlight' = avInFlight \cup {[rid |-> a, url |-> avGenCount + 1]}
    /\ UNCHANGED <<audioMap, avAudios>>

\* handlePlayTTS of the Listen button of announcement a, lines 57-71, when a
\* is not the playing id.
avHandlePlayTTS(a) ==
    /\ avAlertMsg = "none"
    /\ playingId # a
    /\ \/ ListenCached(a)
       \/ ListenGenerate(a)
    /\ avLastRequest' = [rid |-> a, wasPlaying |-> FALSE]
    /\ UNCHANGED avAlertMsg
    /\ UNCHANGED <<rvVars, wavVars, quantVars, restVars>>

\* A request for the announcement that is the playing id: its Listen button
\* is disabled (line 150) and handlePlayTTS returns at once (line 58), so the
\* request changes nothing of the view.
avRequestPlaying(a) ==
    /\ avAlertMsg = "none"
    /\ playingId = a
    /\ avLastRequest' = [rid |-> a, wasPlaying |-> TRUE]
    /\ UNCHANGED <<playingId, audioMap, avAudios, avInFlight, avGenCount, avAlertMsg>>
    /\ UNCHANGED <<rvVars, wavVars, quantVars, restVars>>

\* handlePlayTTS resumed with { audioUrl }: lines 73-78.
avGenerationSuccess(g) ==
    /\ avAlertMsg = "none"
    /\ g \in avInFlight
    /\ Len(avAudios) < AvMaxAudios
    /\ avInFlight' = avInFlight \ {g}
    /\ audioMap' = CachePut(audioMap, g.rid, g.url)
    /\ avAudios' = Append(avAudios, NewAudio(g.rid, g.url))
    /\ UNCHANGED <<playingId, avGenCount, avLastRequest, avAlertMsg>>
    /\ UNCHANGED <<rvVars, wavVars, quantVars, restVars>>

\* handlePlayTTS resumed with { error }: line 80, the alert() dialog; line 81
\* runs when the dialog is closed.
avGenerationFailure(g) ==
    /\ avAlertMsg = "none"
    /\ g \in avInFlight
    /\ avInFlight' = avInFlight \ {g}
    /\ avAlertMsg' = "TTS Error"
    /\ UNCHANGED <<playingId, audioMap, avAudios, avGenCount, avLastRequest>>
    /\ UNCHANGED <<rvVars, wavVars, quantVars, restVars>>

\* The user closes the dialog of line 80: line 81, setPlayingId(null).
avDismissAlert ==
    /\ avAlertMsg # "none"
    /\ avAlertMsg' = "none"
    /\ playingId' = Null
    /\ UNCHANGED <<audioMap, avAudios, avInFlight, avGenCount, avLastRequest>>
    /\ UNCHANGED <<rvVars, wavVars, quantVars, restVars>>

\* audio.onended of element i (lines 64 and 77).
avAudioEnded(i) ==
    /\ avAlertMsg = "none"
    /\ i \in Playing(avAudios)
    /\ avAudios' = [avAudios EXCEPT ![i].st = "ended"]
    /\ playingId' = Null
    /\ UNCHANGED <<audioMap, avInFlight, avGenCount, avLastRequest, avAlertMsg>>
    /\ UNCHANGED <<rvVars, wavVars, quantVars, restVars>>

\* audio.onerror of element i (lines 65 and 78).
avAudioError(i) ==
    /\ avAlertMsg = "none"
    /\ i \in Playing(avAudios)
    /\ avAudios' = [avAudios EXCEPT ![i].st = "error"]
    /\ playingId' = Null
    /\ UNCHANGED <<audioMap, avInFlight, avGenCount, avLastRequest, avAlertMsg>>
    /\ UNCHANGED <<rvVars, wavVars, quantVars, restVars>>

AVNext ==
    \/ \E a \in AnnouncementIds : avHandlePlayTTS(a)
    \/ \E a \in AnnouncementIds : avRequestPlaying(a)
    \/ \E g \in avInFlight : avGenerationSuccess(g)
    \/ \E g \in avInFlight : avGenerationFailure(g)
    \/ avDismissAlert
    \/ \E i \in DOMAIN avAudios : avAudioEnded(i)
    \/ \E i \in DOMAIN avAudios : avAudioError(i)

(***************************************************************************)
(* audioBufferToWav.  A sample is the numerator of a fraction over         *)
(* SampleDen (2 stands for 0.5 when SampleDen is 4); a DataView is a       *)
(* function from byte offsets to bytes.                                    *)
(***************************************************************************)
Min(a, b) == IF a < b THEN a ELSE b
Max(a, b) == IF a > b THEN a ELSE b

\* x|0 for the quotient n / d, d > 0: truncation toward zero.
Trunc(n, d) == IF n >= 0 THEN n \div d ELSE -((-n) \div d)

\* The low byte, and the bytes above it, of a 32-bit two's complement value.
Byte(data, k) ==
    CASE k = 0 -> data % 256
      [] k = 1 -> (data \div 256) % 256
      [] k = 2 -> (data \div 65536) % 256
      [] k = 3 -> (data \div 16777216) % 256

\* setUint16(data): view.setUint16(pos, data, true); pos += 2
setUint16(w, data) ==
    [view |-> [w.view EXCEPT ![w.pos] = Byte(data, 0),
                             ![w.pos + 1] = Byte(data, 1)],
     pos |-> w.pos + 2]

\* setUint32 writing the most significant byte first.
setUint32BigEndian(w, data) ==
    [view |-> [w.view EXCEPT ![w.pos] = Byte(data, 3),
                             ![w.pos + 1] = Byte(data, 2),
                             ![w.pos + 2] = Byte(data, 1),
                             ![w.pos + 3] = Byte(data, 0)],
     pos |-> w.pos + 4]

\* setUint32(data): view.setUint32(pos, data, true); pos += 4
setUint32(w, data) ==
    [view |-> [w.view EXCEPT ![w.pos] = Byte(data, 0),
                             ![w.pos + 1] = Byte(data, 1),
                             ![w.pos + 2] = Byte(data, 2),
                             ![w.pos + 3] = Byte(data, 3)],
     pos |-> w.pos + 4]

\* view.setInt16(at, data, true)
setInt16(view, at, data) ==
    [view EXCEPT ![at] = Byte(data, 0), ![at + 1] = Byte(data, 1)]

\* The length with one byte per sample instead of two.
WavLengthOneBytePerSample(buffer) == buffer.length * buffer.numberOfChannels + 44

\* const length = buffer.length * numOfChan * 2 + 44
WavLength(buffer) == buffer.length * buffer.numberOfChannels * 2 + 44

\* The quantization with the one scale 32767 for every sample.
QuantizeOverOneScale(s, den) ==
    Trunc(Max(-den, Min(den, s)) * 32767, den)

\* Lines 142-143 for the sample s / den: clamp to [-1, 1], scale, |0.
QuantizeOver(s, den) ==
    LET sample == Max(-den, Min(den, s))
    IN  IF den + 2 * sample < 0             \* 0.5 + sample < 0
        THEN Trunc(sample * 32768, den)
        ELSE Trunc(sample * 32767, den)

\* Lines 142-143 for the sample s / SampleDen.
Quantize(s) == QuantizeOver(s, SampleDen)

\* Lines 120-134: the header, written through the running position pos.
WriteHeader(buffer) ==
    LET numOfChan == buffer.numberOfChannels
        length == WavLength(buffer)
        w0  == [view |-> [b \in 0..(length - 1) |-> 0], pos |-> 0]
        w1  == setUint32(w0, 1179011410)                  \* 0x46464952
        w2  == setUint32(w1, length - 8)
        w3  == setUint32(w2, 1163280727)                  \* 0x45564157
        w4  == setUint32(w3, 544501094)                   \* 0x20746d66
        w5  == setUint32(w4, 16)
        w6  == setUint16(w5, 1)
        w7  == setUint16(w6, numOfChan)
        w8  == setUint32(w7, buffer.sampleRate)
        w9  == setUint32(w8, buffer.sampleRate * 2 * numOfChan)
        w10 == setUint16(w9, numOfChan * 2)
        w11 == setUint16(w10, 16)
        w12 == setUint32(w11, 1635017060)                 \* 0x61746164
    IN  setUint32(w12, length - w12.pos - 44)

\* Lines 141-146: the channels of frame pos.  e is [view, offset, log].
RECURSIVE WriteFrame(_, _, _, _)
WriteFrame(buffer, e, pos, i) ==
    IF i < buffer.numberOfChannels
    THEN LET s == buffer.channels[i + 1][pos + 1]
             sample == Quantize(s)
         IN  WriteFrame(buffer,
                        [view |-> setInt16(e.view, 44 + e.offset, sample),
                         offset |-> e.offset + 2,
                         log |-> e.log \cup {<<s, sample>>}],
                        pos, i + 1)
    ELSE e

\* Lines 140-148: while (pos < buffer.length) { ...; pos++ }
RECURSIVE WriteSamples(_, _, _)
WriteSamples(buffer, e, pos) ==
    IF pos < buffer.length
    THEN WriteSamples(buffer, WriteFrame(buffer, e, pos, 0), pos + 1)
    ELSE e

\* audioBufferToWav: the bytes of the Blob, and the samples it scaled.
audioBufferToWav(buffer) ==
    LET w == WriteHeader(buffer)
        e == WriteSamples(buffer, [view |-> w.view, offset |-> 0, log |-> {}],
                          w.pos)
    IN  [bytes |-> e.view, quantized |-> e.log]

\* The buffers handed to the encoder: every frame count, channel count and
\* sample rate of the bounds, the samples running through SamplePattern from
\* a phase that differs by channel.
SampleRates == {8000, 24000, 48000}
SamplePattern == <<0, 2, -2, 4, -1, -4, 1, 5, -5, 3, -3>>

PatternBuffer(n, c, r, seed) ==
    [numberOfChannels |-> c, sampleRate |-> r, length |-> n,
     channels |-> [ch \in 1..c |-> [f \in 1..n |->
         SamplePattern[((seed + (f - 1) + 3 * (ch - 1)) % Len(SamplePattern)) + 1]]]]

WavBuffers ==
    {PatternBuffer(n, c, r, seed) :
        n \in 0..MaxFrames, c \in 1..MaxChannels, r \in SampleRates,
        seed \in 0..MaxSeed}

WavInit ==
    /\ wavBuffer \in WavBuffers
    /\ wavOut = <<>>
    /\ wavQuantized = {}
    /\ wavPc = "ready"

Encode ==
    /\ wavPc = "ready"
    /\ LET out == audioBufferToWav(wavBuffer)
       IN  /\ wavOut' = out.bytes
           /\ wavQuantized' = out.quantized
    /\ wavPc' = "done"
    /\ UNCHANGED wavBuffer
    /\ UNCHANGED <<rvVars, avVars, quantVars, restVars>>

WavNext == Encode

(***************************************************************************)
(* The quantization step alone, for every sample k / FineDen of [-1, 1].   *)
(***************************************************************************)
QuantInit ==
    /\ qSample \in (-FineDen)..FineDen
    /\ qOut = 0
    /\ qPc = "ready"

QuantIdle ==
    /\ qSample = 0
    /\ qOut = 0
    /\ qPc = "ready"

\* sample = Math.max(...); sample = (...)|0 for one sample.
QuantizeStep ==
    /\ qPc = "ready"
    /\ qOut' = QuantizeOver(qSample, FineDen)
    /\ qPc' = "done"
    /\ UNCHANGED qSample
    /\ UNCHANGED <<rvVars, avVars, wavVars, restVars>>

QuantNext == QuantizeStep

(***************************************************************************)
(* generateTTS.  A JavaScript object is a record whose domain is the set   *)
(* of the properties it has; a thrown value is such an object, with or     *)
(* without a message.                                                      *)
(***************************************************************************)
ChainLength == 7
MaxTtsFrames == 2

ErrorMessages == {"", "quota exceeded", "Unable to decode audio data"}
Thrown == {[message |-> m] : m \in ErrorMessages} \cup {[name |-> "AbortError"]}
Base64Data == {"", "UklGRg==", "AAAA"}

\* error.message, "" standing for every falsy value of it
MessageOf(e) == IF "message" \in DOMAIN e THEN e.message ELSE ""

\* a || b where a is the left operand alone
OrElseLeft(a, b) == a

\* a || b on strings
OrElse(a, b) == IF a = "" THEN b ELSE a

\* response.candidates?.[0]?.content?.parts?.[0]?.inlineData?.data: the
\* response has the first `depth` links of the chain; "" stands for undefined.
InlineData(response) ==
    IF response.depth < ChainLength THEN "" ELSE response.data

\* URL.createObjectURL: a fresh blob: URL, never empty
createObjectURL(blob) == "blob:object-url"

\* generateTTS, lines 11-48: how the promise settles and the value it
\* settles with.
generateTTS(api, dec) ==
    LET caught(e) ==
            [settled |-> "resolved",
             value |-> [error |-> OrElse(MessageOf(e), "Failed to generate speech")]]
    IN  IF api.kind = "rejected"
        THEN caught(api.thrown)
        ELSE LET base64Audio == InlineData(api)
             IN  IF base64Audio = ""
                 THEN caught([message |-> "No audio data returned"])
                 ELSE IF dec.kind = "fault"
                 THEN caught(dec.thrown)
                 ELSE LET audioBuffer == PatternBuffer(dec.length, 1, 24000, 0)
                          wavBlob == audioBufferToWav(audioBuffer).bytes
                      IN  [settled |-> "resolved",
                           value |-> [audioUrl |-> createObjectURL(wavBlob)]]

\* What ai.models.generateContent and the decoding can do.
TtsApiOutcomes ==
    {[kind |-> "rejected", thrown |-> e] : e \in Thrown}
    \cup {[kind |-> "resolved", depth |-> d, data |-> ""] : d \in 0..(ChainLength - 1)}
    \cup {[kind |-> "resolved", depth |-> ChainLength, data |-> x] : x \in Base64Data}
TtsDecodeOutcomes ==
    {[kind |-> "decoded", length |-> n] : n \in 0..MaxTtsFrames}
    \cup {[kind |-> "fault", thrown |-> e] : e \in Thrown}

TtsInit ==
    /\ ttsApi \in TtsApiOutcomes
    /\ ttsDecode \in TtsDecodeOutcomes
    /\ ttsResult = [error |-> ""]
    /\ ttsPc = "ready"

TtsIdle ==
    /\ ttsApi = [kind |-> "resolved", depth |-> 0, data |-> ""]
    /\ ttsDecode = [kind |-> "decoded", length |-> 0]
    /\ ttsResult = [error |-> ""]
    /\ ttsPc = "ready"

\* One call of generateTTS, from the call to the settling of its promise.
TtsCall ==
    /\ ttsPc = "ready"
    /\ ttsPc' = generateTTS(ttsApi, ttsDecode).settled
    /\ ttsResult' = generateTTS(ttsApi, ttsDecode).value
    /\ UNCHANGED <<ttsApi, ttsDecode>>
    /\ UNCHANGED <<rvVars, avVars, wavVars, quantVars, chatVars, uploadVars, listVars, appVars>>

TtsNext == TtsCall

(***************************************************************************)
(* ChatView.  A text is a sequence of tokens, " " being white space; a     *)
(* message is [id, role, text, isStreaming], isStreaming being FALSE where *)
(* the source leaves it undefined.                                         *)
(***************************************************************************)
MaxSubmits == 2
MaxChunks == 2
MaxRecordings == 2

TypedInputs == {<<>>, <<" ">>, <<"q">>}
Transcripts == {<<>>, <<"w">>}

RECURSIVE TrimStart(_)
TrimStart(t) ==
    IF t # <<>> /\ Head(t) = " " THEN TrimStart(Tail(t)) ELSE t
RECURSIVE TrimEnd(_)
TrimEnd(t) ==
    IF t # <<>> /\ t[Len(t)] = " " THEN TrimEnd(SubSeq(t, 1, Len(t) - 1)) ELSE t
\* String.prototype.trim
Trim(t) == TrimEnd(TrimStart(t))

UserMessages == {i \in DOMAIN messages : messages[i].role = "user"}

\* prev.map(msg => msg.id === id ? { ...msg, text } : msg)
SetText(msgs, id, text) ==
    [i \in DOMAIN msgs |-> IF msgs[i].id = id
                           THEN [msgs[i] EXCEPT !.text = text]
                           ELSE msgs[i]]

\* prev.map(msg => msg.id === id ? { ...msg, isStreaming: false } : msg)
EndStreaming(msgs, id) ==
    [i \in DOMAIN msgs |-> IF msgs[i].id = id
                           THEN [msgs[i] EXCEPT !.isStreaming = FALSE]
                           ELSE msgs[i]]

ChatInit ==
    /\ messages = <<[id |-> 0, role |-> "model", text |-> <<"welcome">>,
                     isStreaming |-> FALSE]>>
    /\ input = <<>>
    /\ isLoading = FALSE
    /\ isRecording = FALSE
    /\ isTranscribing = FALSE
    /\ submitPc = "idle"
    /\ aiMessageId = 0
    /\ fullText = <<>>
    /\ recorderPc = "none"
    /\ recCount = 0
    /\ chatAlert = FALSE

\* onChange of the input box (line 234); the box is disabled by line 237.
setInput(v) ==
    /\ ~chatAlert
    /\ ~(isLoading \/ isRecording \/ isTranscribing)
    /\ v # input
    /\ input' = v
    /\ UNCHANGED <<messages, isLoading, isRecording, isTranscribing, submitPc,
                   aiMessageId, fullText, recorderPc, recCount, chatAlert>>
    /\ UNCHANGED <<rvVars, avVars, wavVars, quantVars, ttsVars, uploadVars, listVars, appVars>>

\* handleSubmit, lines 48-71, up to the await of sendMessageStream; the send
\* button is disabled by line 257.
handleSubmit ==
    /\ ~chatAlert
    /\ ~(isLoading \/ isRecording)
    /\ Trim(input) # <<>>
    /\ Cardinality(UserMessages) < MaxSubmits
    /\ LET userId == Len(messages) + 1
           aiId == Len(messages) + 2
       IN  /\ messages' = messages \o
                  <<[id |-> userId, role |-> "user", text |-> input,
                     isStreaming |-> FALSE],
                    [id |-> aiId, role |-> "model", text |-> <<>>,
                     isStreaming |-> TRUE]>>
           /\ aiMessageId' = aiId
    /\ input' = <<>>
    /\ isLoading' = TRUE
    /\ fullText' = <<>>
    /\ submitPc' = "sending"
    /\ UNCHANGED <<isRecording, isTranscribing, recorderPc, recCount, chatAlert>>
    /\ UNCHANGED <<rvVars, avVars, wavVars, quantVars, ttsVars, uploadVars, listVars, appVars>>

\* sendMessageStream resolved with the stream (line 71).
sendResolved ==
    /\ ~chatAlert
    /\ submitPc = "sending"
    /\ submitPc' = "streaming"
    /\ UNCHANGED <<messages, input, isLoading, isRecording, isTranscribing,
                   aiMessageId, fullText, recorderPc, recCount, chatAlert>>
    /\ UNCHANGED <<rvVars, avVars, wavVars, quantVars, ttsVars, uploadVars, listVars, appVars>>

\* The catch and the finally of handleSubmit, lines 92-101: the list with the
\* apology appended.
WithApology(msgs) ==
    Append(msgs, [id |-> Len(msgs) + 1, role |-> "model",
                  text |-> <<"sorry">>, isStreaming |-> FALSE])

SubmitFailed ==
    /\ messages' = WithApology(messages)
    /\ isLoading' = FALSE
    /\ submitPc' = "idle"

\* sendMessageStream rejected (line 71).
sendRejected ==
    /\ ~chatAlert
    /\ submitPc = "sending"
    /\ SubmitFailed
    /\ UNCHANGED <<input, isRecording, isTranscribing, aiMessageId, fullText,
                   recorderPc, recCount, chatAlert>>
    /\ UNCHANGED <<rvVars, avVars, wavVars, quantVars, ttsVars, uploadVars, listVars, appVars>>

\* One turn of the for await loop, lines 74-84.
streamChunk ==
    /\ ~chatAlert
    /\ submitPc = "streaming"
    /\ Len(fullText) < MaxChunks
    /\ fullText' = Append(fullText, "c")
    /\ messages' = SetText(messages, aiMessageId, fullText')
    /\ UNCHANGED <<input, isLoading, isRecording, isTranscribing, submitPc,
                   aiMessageId, recorderPc, recCount, chatAlert>>
    /\ UNCHANGED <<rvVars, avVars, wavVars, quantVars, ttsVars, uploadVars, listVars, appVars>>

\* The stream ended: lines 86-90 and the finally.
streamDone ==
    /\ ~chatAlert
    /\ submitPc = "streaming"
    /\ messages' = EndStreaming(messages, aiMessageId)
    /\ isLoading' = FALSE
    /\ submitPc' = "idle"
    /\ UNCHANGED <<input, isRecording, isTranscribing, aiMessageId, fullText,
                   recorderPc, recCount, chatAlert>>
    /\ UNCHANGED <<rvVars, avVars, wavVars, quantVars, ttsVars, uploadVars, listVars, appVars>>

\* The stream threw inside the for await loop.
streamRejected ==
    /\ ~chatAlert
    /\ submitPc = "streaming"
    /\ SubmitFailed
    /\ UNCHANGED <<input, isRecording, isTranscribing, aiMessageId, fullText,
                   recorderPc, recCount, chatAlert>>
    /\ UNCHANGED <<rvVars, avVars, wavVars, quantVars, ttsVars, uploadVars, listVars, appVars>>

\* The microphone button starts a recording when none runs (line 242) and is
\* disabled by line 243.
MicButtonEnabled == ~(isLoading \/ isTranscribing)

\* startRecording, lines 104-140, getUserMedia granting the microphone.
startRecording ==
    /\ ~chatAlert
    /\ MicButtonEnabled
    /\ ~isRecording
    /\ recorderPc = "none"
    /\ recCount < MaxRecordings
    /\ recCount' = recCount + 1
    /\ recorderPc' = "recording"
    /\ isRecording' = TRUE
    /\ UNCHANGED <<messages, input, isLoading, isTranscribing, submitPc,
                   aiMessageId, fullText, chatAlert>>
    /\ UNCHANGED <<rvVars, avVars, wavVars, quantVars, ttsVars, uploadVars, listVars, appVars>>

\* startRecording, lines 141-144, getUserMedia refusing it.
startRecordingDenied ==
    /\ ~chatAlert
    /\ MicButtonEnabled
    /\ ~isRecording
    /\ recorderPc = "none"
    /\ chatAlert' = TRUE
    /\ UNCHANGED <<messages, input, isLoading, isRecording, isTranscribing,
                   submitPc, aiMessageId, fullText, recorderPc, recCount>>
    /\ UNCHANGED <<rvVars, avVars, wavVars, quantVars, ttsVars, uploadVars, listVars, appVars>>

\* The user closes the dialog of line 143.
dismissChatAlert ==
    /\ chatAlert
    /\ chatAlert' = FALSE
    /\ UNCHANGED <<messages, input, isLoading, isRecording, isTranscribing,
                   submitPc, aiMessageId, fullText, recorderPc, recCount>>
    /\ UNCHANGED <<rvVars, avVars, wavVars, quantVars, ttsVars, uploadVars, listVars, appVars>>

\* stopRecording, lines 147-152.
stopRecording ==
    /\ ~chatAlert
    /\ MicButtonEnabled
    /\ isRecording
    /\ recorderPc = "recording"
    /\ recorderPc' = "stopping"
    /\ isRecording' = FALSE
    /\ UNCHANGED <<messages, input, isLoading, isTranscribing, submitPc,
                   aiMessageId, fullText, recCount, chatAlert>>
    /\ UNCHANGED <<rvVars, avVars, wavVars, quantVars, ttsVars, uploadVars, listVars, appVars>>

\* mediaRecorder.onstop, lines 115-137: the reader is started.
onstop ==
    /\ ~chatAlert
    /\ recorderPc = "stopping"
    /\ isTranscribing' = TRUE
    /\ recorderPc' = "reading"
    /\ UNCHANGED <<messages, input, isLoading, isRecording, submitPc,
                   aiMessageId, fullText, recCount, chatAlert>>
    /\ UNCHANGED <<rvVars, avVars, wavVars, quantVars, ttsVars, uploadVars, listVars, appVars>>

\* reader.onloadend, lines 121-125, up to the await of transcribeAudio.
onloadend ==
    /\ ~chatAlert
    /\ recorderPc = "reading"
    /\ recorderPc' = "transcribing"
    /\ UNCHANGED <<messages, input, isLoading, isRecording, isTranscribing,
                   submitPc, aiMessageId, fullText, recCount, chatAlert>>
    /\ UNCHANGED <<rvVars, avVars, wavVars, quantVars, ttsVars, uploadVars, listVars, appVars>>

\* transcribeAudio resolved with text (gemini.ts:92): lines 126-129.
transcribeResolved(text) ==
    /\ ~chatAlert
    /\ recorderPc = "transcribing"
    /\ input' = IF text # <<>>
                THEN Trim(IF input # <<>> THEN input \o <<" ">> \o text ELSE text)
                ELSE input
    /\ isTranscribing' = FALSE
    /\ recorderPc' = "none"
    /\ UNCHANGED <<messages, isLoading, isRecording, submitPc, aiMessageId,
                   fullText, recCount, chatAlert>>
    /\ UNCHANGED <<rvVars, avVars, wavVars, quantVars, ttsVars, uploadVars, listVars, appVars>>

\* transcribeAudio rejected (gemini.ts:93-96): the await of line 125 throws
\* inside the onloadend callback, outside every try block, and the callback
\* ends there.
transcribeRejected ==
    /\ ~chatAlert
    /\ recorderPc = "transcribing"
    /\ recorderPc' = "none"
    /\ UNCHANGED <<messages, input, isLoading, isRecording, isTranscribing,
                   submitPc, aiMessageId, fullText, recCount, chatAlert>>
    /\ UNCHANGED <<rvVars, avVars, wavVars, quantVars, ttsVars, uploadVars, listVars, appVars>>

ChatNext ==
    \/ \E v \in TypedInputs : setInput(v)
    \/ handleSubmit
    \/ sendResolved
    \/ sendRejected
    \/ streamChunk
    \/ streamDone
    \/ streamRejected
    \/ startRecording
    \/ startRecordingDenied
    \/ dismissChatAlert
    \/ stopRecording
    \/ onstop
    \/ onloadend
    \/ \E text \in Transcripts : transcribeResolved(text)
    \/ transcribeRejected

(***************************************************************************)
(* AdminUploadView.  A queue item is [id, status]; a running batch is      *)
(* [items, pos]: the pendingItems of one handleUploadAll call and the      *)
(* index of the item whose db add it awaits.                               *)
(***************************************************************************)
MaxItems == 3

ItemIds == 1..MaxItems

\* prev.map(q => q.id === id ? { ...q, status } : q)
SetStatus(q, id, status) ==
    [i \in DOMAIN q |-> IF q[i].id = id THEN [q[i] EXCEPT !.status = status] ELSE q[i]]

ItemIdsOf(q) == [i \in DOMAIN q |-> q[i].id]

UploadInit ==
    /\ queue = <<>>
    /\ isGlobalUploading = FALSE
    /\ batches = <<>>
    /\ written = {}
    /\ removedPending = {}
    /\ nextItemId = 1

\* addToQueue, lines 30-33, called by handleManualAdd with every field filled
\* in and by handleDrop for each file.
addToQueue ==
    /\ nextItemId <= MaxItems
    /\ queue' = Append(queue, [id |-> nextItemId, status |-> "pending"])
    /\ nextItemId' = nextItemId + 1
    /\ UNCHANGED <<isGlobalUploading, batches, written, removedPending>>
    /\ UNCHANGED <<rvVars, avVars, wavVars, quantVars, ttsVars, chatVars, listVars, appVars>>

\* handleRemove, lines 46-48; the button is disabled by line 275.
handleRemove(i) ==
    /\ i \in DOMAIN queue
    /\ queue[i].status \notin {"uploading", "success"}
    /\ queue' = SelectSeq(queue, LAMBDA item : item.id # queue[i].id)
    /\ removedPending' = IF queue[i].status = "pending"
                         THEN removedPending \cup {queue[i].id}
                         ELSE removedPending
    /\ UNCHANGED <<isGlobalUploading, batches, written, nextItemId>>
    /\ UNCHANGED <<rvVars, avVars, wavVars, quantVars, ttsVars, chatVars, listVars, appVars>>

\* clearSuccess, lines 132-134; the button is rendered by line 238.
clearSuccess ==
    /\ \E i \in DOMAIN queue : queue[i].status = "success"
    /\ queue' = SelectSeq(queue, LAMBDA item : item.status # "success")
    /\ UNCHANGED <<isGlobalUploading, batches, written, removedPending, nextItemId>>
    /\ UNCHANGED <<rvVars, avVars, wavVars, quantVars, ttsVars, chatVars, listVars, appVars>>

\* The items a batch takes when every item not uploading is taken.
PendingItemsAll(q) ==
    ItemIdsOf(SelectSeq(q, LAMBDA item : item.status # "uploading"))

\* Line 108: the items of the queue that are pending or in error.
PendingItems(q) ==
    ItemIdsOf(SelectSeq(q, LAMBDA item : item.status \in {"pending", "error"}))

\* handleUploadAll, lines 106-115, up to the first await; the button is
\* disabled by line 287.  With nothing to upload the handler runs to its end
\* and leaves the state as it was.
handleUploadAll ==
    /\ queue # <<>>
    /\ ~isGlobalUploading
    /\ LET pendingItems == PendingItems(queue)
       IN  IF pendingItems = <<>>
           THEN UNCHANGED <<queue, isGlobalUploading, batches>>
           ELSE /\ isGlobalUploading' = TRUE
                /\ queue' = SetStatus(queue, pendingItems[1], "uploading")
                /\ batches' = Append(batches, [items |-> pendingItems, pos |-> 1])
    /\ UNCHANGED <<written, removedPending, nextItemId>>
    /\ UNCHANGED <<rvVars, avVars, wavVars, quantVars, ttsVars, chatVars, listVars, appVars>>

\* The batch b after the add of its current item settled with `status`:
\* lines 123 or 126, then the next turn of the loop (line 112 and the add of
\* line 115) or, after the last item, line 129.
Continue(b, status) ==
    LET batch == batches[b]
        settled == SetStatus(queue, batch.items[batch.pos], status)
    IN  IF batch.pos < Len(batch.items)
        THEN /\ queue' = SetStatus(settled, batch.items[batch.pos + 1], "uploading")
             /\ batches' = [batches EXCEPT ![b].pos = batch.pos + 1]
             /\ UNCHANGED isGlobalUploading
        ELSE /\ queue' = settled
             /\ batches' = [i \in 1..(Len(batches) - 1) |->
                               IF i < b THEN batches[i] ELSE batches[i + 1]]
             /\ isGlobalUploading' = FALSE

\* db.collection(resources).add resolved for the current item of batch b.
addResolved(b) ==
    /\ b \in DOMAIN batches
    /\ written' = written \cup {batches[b].items[batches[b].pos]}
    /\ Continue(b, "success")
    /\ UNCHANGED <<removedPending, nextItemId>>
    /\ UNCHANGED <<rvVars, avVars, wavVars, quantVars, ttsVars, chatVars, listVars, appVars>>

\* The catch that logs the error and sets no status.
addRejectedNoStatus(b) ==
    /\ b \in DOMAIN batches
    /\ Continue(b, "uploading")
    /\ UNCHANGED <<written, removedPending, nextItemId>>
    /\ UNCHANGED <<rvVars, avVars, wavVars, quantVars, ttsVars, chatVars, listVars, appVars>>

\* db.collection(resources).add rejected for the current item of batch b.
addRejected(b) ==
    /\ b \in DOMAIN batches
    /\ Continue(b, "error")
    /\ UNCHANGED <<written, removedPending, nextItemId>>
    /\ UNCHANGED <<rvVars, avVars, wavVars, quantVars, ttsVars, chatVars, listVars, appVars>>

UploadNext ==
    \/ addToQueue
    \/ \E i \in DOMAIN queue : handleRemove(i)
    \/ clearSuccess
    \/ handleUploadAll
    \/ \E b \in DOMAIN batches : addResolved(b)
    \/ \E b \in DOMAIN batches : addRejected(b)

(***************************************************************************)
(* ResourceView, the list of resources and its search.  A string is a      *)
(* sequence of characters; the resources collection holds the documents of *)
(* Docs; the list on screen is the set of the ids of its documents (its    *)
(* order plays no part here).  The handlers are those of the TTS           *)
(* controller above, taken here with the list state they also change.      *)
(***************************************************************************)
NumUnits == 2
NumTypes == 1
MaxFetches == 3

UnitKeys == 1..NumUnits
TypeKeys == 1..NumTypes

Docs ==
    {[id |-> 1, unit |-> 1, type |-> 1, title |-> <<"A", "b">>, data |-> <<"b">>],
     [id |-> 2, unit |-> 1, type |-> 1, title |-> <<"B">>, data |-> <<"a", "a">>],
     [id |-> 3, unit |-> 2, type |-> 1, title |-> <<"b", "b">>, data |-> <<"B">>]}

Queries == {<<" ">>, <<"a">>, <<"A", "B">>}

\* String.prototype.toLowerCase
ToLowerCase(str) ==
    [i \in DOMAIN str |-> CASE str[i] = "A" -> "a"
                            [] str[i] = "B" -> "b"
                            [] OTHER -> str[i]]

\* String.prototype.includes
Includes(str, sub) ==
    \E i \in 1..(Len(str) + 1) :
        /\ i + Len(sub) - 1 <= Len(str)
        /\ SubSeq(str, i, i + Len(sub) - 1) = sub

\* Lines 75-79: the filter of performSearch, for the query q.
Matches(doc, q) ==
    LET lowerQ == ToLowerCase(q)
    IN  \/ Includes(ToLowerCase(doc.title), lowerQ)
        \/ Includes(ToLowerCase(doc.data), lowerQ)

ListInit ==
    /\ selectedUnit = Null
    /\ selectedType = Null
    /\ resources = {}
    /\ loading = FALSE
    /\ searchQuery = <<>>
    /\ fetches = {}
    /\ fetchCount = 0
    /\ lastSearch = [id |-> Null, query |-> <<>>, done |-> FALSE]

\* onChange of the search box, line 261: the text becomes q.
setSearchQuery(q) ==
    /\ alertMsg = "none"
    /\ mounted
    /\ q # searchQuery
    /\ searchQuery' = q
    /\ UNCHANGED <<selectedUnit, selectedType, resources, loading, fetches,
                   fetchCount, lastSearch>>
    /\ UNCHANGED <<step, rvTtsVars>>
    /\ UNCHANGED <<avVars, wavVars, quantVars, ttsVars, chatVars, uploadVars, appVars>>

\* handleUnitSelect, lines 89-93, with the list state.
listHandleUnitSelect(unitKey) ==
    /\ alertMsg = "none"
    /\ mounted
    /\ step = "unit"
    /\ selectedUnit' = unitKey
    /\ step' = "type"
    /\ searchQuery' = <<>>
    /\ UNCHANGED <<selectedType, resources, loading, fetches, fetchCount, lastSearch>>
    /\ UNCHANGED rvTtsVars
    /\ UNCHANGED <<avVars, wavVars, quantVars, ttsVars, chatVars, uploadVars, appVars>>

\* handleTypeSelect, lines 95-99, and fetchResources up to its await
\* (lines 42-48).
listHandleTypeSelect(typeKey) ==
    /\ alertMsg = "none"
    /\ mounted
    /\ step = "type"
    /\ fetchCount < MaxFetches
    /\ selectedType' = typeKey
    /\ step' = "list"
    /\ loading' = TRUE
    /\ fetchCount' = fetchCount + 1
    /\ fetches' = fetches \cup {[id |-> fetchCount + 1, kind |-> "list",
                                 unit |-> selectedUnit, type |-> typeKey,
                                 query |-> <<>>]}
    /\ UNCHANGED <<selectedUnit, resources, searchQuery, lastSearch>>
    /\ UNCHANGED rvTtsVars
    /\ UNCHANGED <<avVars, wavVars, quantVars, ttsVars, chatVars, uploadVars, appVars>>

\* performSearch, lines 60-71, up to its await.
listPerformSearch ==
    /\ alertMsg = "none"
    /\ mounted
    /\ Trim(searchQuery) # <<>>
    /\ fetchCount < MaxFetches
    /\ loading' = TRUE
    /\ step' = "search"
    /\ fetchCount' = fetchCount + 1
    /\ fetches' = fetches \cup {[id |-> fetchCount + 1, kind |-> "search",
                                 unit |-> Null, type |-> Null,
                                 query |-> searchQuery]}
    /\ lastSearch' = [id |-> fetchCount + 1, query |-> searchQuery, done |-> FALSE]
    /\ UNCHANGED <<selectedUnit, selectedType, resources, searchQuery>>
    /\ UNCHANGED rvTtsVars
    /\ UNCHANGED <<avVars, wavVars, quantVars, ttsVars, chatVars, uploadVars, appVars>>

\* The documents a resolved read hands to setResources: lines 50-52 for a
\* list read, lines 72-81 for a search.
FetchResult(f) ==
    IF f.kind = "list"
    THEN {d.id : d \in {x \in Docs : x.unit = f.unit /\ x.type = f.type}}
    ELSE {d.id : d \in {x \in Docs : Matches(x, f.query)}}

\* The snapshot of read f arrived: lines 50-52 or 72-81, then the finally.
fetchResolved(f) ==
    /\ alertMsg = "none"
    /\ f \in fetches
    /\ fetches' = fetches \ {f}
    /\ resources' = FetchResult(f)
    /\ loading' = FALSE
    /\ lastSearch' = IF f.id = lastSearch.id
                     THEN [lastSearch EXCEPT !.done = TRUE]
                     ELSE lastSearch
    /\ UNCHANGED <<selectedUnit, selectedType, searchQuery, fetchCount>>
    /\ UNCHANGED <<step, rvTtsVars>>
    /\ UNCHANGED <<avVars, wavVars, quantVars, ttsVars, chatVars, uploadVars, appVars>>

\* The read f failed: the catch and the finally (lines 53-57, 82-86).
fetchRejected(f) ==
    /\ alertMsg = "none"
    /\ f \in fetches
    /\ fetches' = fetches \ {f}
    /\ loading' = FALSE
    /\ UNCHANGED <<selectedUnit, selectedType, resources, searchQuery,
                   fetchCount, lastSearch>>
    /\ UNCHANGED <<step, rvTtsVars>>
    /\ UNCHANGED <<avVars, wavVars, quantVars, ttsVars, chatVars, uploadVars, appVars>>

\* handleBack, lines 101-117, with the list state.
listHandleBack ==
    /\ alertMsg = "none"
    /\ mounted
    /\ step # "unit"
    /\ IF currentAudioRef # Null
       THEN /\ audios' = Pause(audios, currentAudioRef)
            /\ currentAudioRef' = Null
            /\ playingResourceId' = Null
       ELSE UNCHANGED <<audios, currentAudioRef, playingResourceId>>
    /\ step' = CASE step = "search" -> "unit"
                 [] step = "list" -> "type"
                 [] step = "type" -> "unit"
    /\ searchQuery' = IF step = "search" THEN <<>> ELSE searchQuery
    /\ resources' = IF step = "search" THEN {} ELSE resources
    /\ UNCHANGED <<selectedUnit, selectedType, loading, fetches, fetchCount,
                   lastSearch>>
    /\ UNCHANGED <<generatingAudioId, audioCache, inFlight, genCount, mounted,
                   lastRequest, alertMsg>>
    /\ UNCHANGED <<avVars, wavVars, quantVars, ttsVars, chatVars, uploadVars, appVars>>

\* The clear button of the search box, lines 265-272: setSearchQuery('') and,
\* on the search step, handleBack.
clearSearch ==
    /\ alertMsg = "none"
    /\ mounted
    /\ searchQuery # <<>>
    /\ searchQuery' = <<>>
    /\ IF step = "search" /\ currentAudioRef # Null
       THEN /\ audios' = Pause(audios, currentAudioRef)
            /\ currentAudioRef' = Null
            /\ playingResourceId' = Null
       ELSE UNCHANGED <<audios, currentAudioRef, playingResourceId>>
    /\ step' = IF step = "search" THEN "unit" ELSE step
    /\ resources' = IF step = "search" THEN {} ELSE resources
    /\ UNCHANGED <<selectedUnit, selectedType, loading, fetches, fetchCount,
                   lastSearch>>
    /\ UNCHANGED <<generatingAudioId, audioCache, inFlight, genCount, mounted,
                   lastRequest, alertMsg>>
    /\ UNCHANGED <<avVars, wavVars, quantVars, ttsVars, chatVars, uploadVars, appVars>>

\* The "Units" breadcrumb, line 224.
listBreadcrumbUnits ==
    /\ alertMsg = "none"
    /\ mounted
    /\ step # "unit" \/ searchQuery # <<>>
    /\ step' = "unit"
    /\ searchQuery' = <<>>
    /\ UNCHANGED <<selectedUnit, selectedType, resources, loading, fetches,
                   fetchCount, lastSearch>>
    /\ UNCHANGED rvTtsVars
    /\ UNCHANGED <<avVars, wavVars, quantVars, ttsVars, chatVars, uploadVars, appVars>>

ListNext ==
    \/ \E q \in Queries \cup {<<>>} : setSearchQuery(q)
    \/ \E u \in UnitKeys : listHandleUnitSelect(u)
    \/ \E t \in TypeKeys : listHandleTypeSelect(t)
    \/ listPerformSearch
    \/ \E f \in fetches : fetchResolved(f)
    \/ \E f \in fetches : fetchRejected(f)
    \/ listHandleBack
    \/ clearSearch
    \/ listBreadcrumbUnits

(***************************************************************************)
(* App: the signed-in user, the view on screen and the admin gate, with    *)
(* handlePost and handleDelete of AnnouncementView.  A user object is a    *)
(* record with an email; null is the record SignedOut, which has none.     *)
(***************************************************************************)
MaxPosts == 2

ADMIN_EMAIL == "pascollanm@gmail.com"

Emails == {ADMIN_EMAIL, "student@example.com", "Pascollanm@gmail.com"}
SignedOut == [signedOut |-> TRUE]
Users == {[email |-> e] : e \in Emails}
ViewTypes == {"discussion", "announcements", "resources", "chat", "admin"}
PostIds == 1..MaxPosts

\* A gate that lets every signed-in user through.
isAdminAnyUser == "email" \in DOMAIN user

\* const isAdmin = user?.email === ADMIN_EMAIL
isAdmin ==
    /\ "email" \in DOMAIN user
    /\ user.email = ADMIN_EMAIL

\* renderView, lines 322-337, under the loading test of line 339.
RenderView ==
    IF appLoading THEN "Loading Hub"
    ELSE CASE currentView = "discussion" -> "DiscussionView"
           [] currentView = "announcements" -> "AnnouncementView"
           [] currentView = "resources" -> "ResourceView"
           [] currentView = "chat" -> "ChatView"
           [] currentView = "admin" ->
                IF isAdmin THEN "AdminUploadView" ELSE "Access Denied"
           [] OTHER -> "DiscussionView"

AppInit ==
    /\ user = SignedOut
    /\ appLoading = TRUE
    /\ currentView = "discussion"
    /\ announcementDocs = {}
    /\ pendingWrites = {}
    /\ postCount = 0
    /\ lastInvoked = [handler |-> "none", user |-> SignedOut, called |-> FALSE]

\* The auth listener, lines 312-317: the first call, a sign in, a sign out.
onAuthStateChanged(currentUser) ==
    /\ appLoading \/ currentUser # user
    /\ user' = currentUser
    /\ appLoading' = FALSE
    /\ UNCHANGED <<currentView, announcementDocs, pendingWrites, postCount,
                   lastInvoked>>
    /\ UNCHANGED <<rvVars, avVars, wavVars, quantVars, ttsVars, chatVars,
                   uploadVars, listVars>>

\* A NavItem of Layout is pressed: onViewChange(view).  The "Admin Upload"
\* item is rendered for isAdmin only.
onViewChange(view) ==
    /\ ~appLoading
    /\ view # currentView
    /\ view = "admin" => isAdmin
    /\ currentView' = view
    /\ UNCHANGED <<user, appLoading, announcementDocs, pendingWrites, postCount,
                   lastInvoked>>
    /\ UNCHANGED <<rvVars, avVars, wavVars, quantVars, ttsVars, chatVars,
                   uploadVars, listVars>>

\* handlePost, lines 34-48, up to its await, invoked with the isAdmin of the
\* render on screen.
handlePost ==
    /\ RenderView = "AnnouncementView"
    /\ postCount < MaxPosts
    /\ lastInvoked' = [handler |-> "handlePost", user |-> user, called |-> isAdmin]
    /\ IF ~isAdmin
       THEN UNCHANGED <<pendingWrites, postCount>>
       ELSE /\ postCount' = postCount + 1
            /\ pendingWrites' = pendingWrites \cup
                                  {[op |-> "add", id |-> postCount + 1]}
    /\ UNCHANGED <<user, appLoading, currentView, announcementDocs>>
    /\ UNCHANGED <<rvVars, avVars, wavVars, quantVars, ttsVars, chatVars,
                   uploadVars, listVars>>

\* handleDelete, lines 50-55, up to its await; confirmed is the answer to
\* window.confirm, which is asked only if isAdmin.
handleDelete(id, confirmed) ==
    /\ RenderView = "AnnouncementView"
    /\ id \in announcementDocs
    /\ [op |-> "delete", id |-> id] \notin pendingWrites
    /\ lastInvoked' = [handler |-> "handleDelete", user |-> user,
                       called |-> isAdmin /\ confirmed]
    /\ IF ~isAdmin \/ ~confirmed
       THEN UNCHANGED pendingWrites
       ELSE pendingWrites' = pendingWrites \cup {[op |-> "delete", id |-> id]}
    /\ UNCHANGED <<user, appLoading, currentView, announcementDocs, postCount>>
    /\ UNCHANGED <<rvVars, avVars, wavVars, quantVars, ttsVars, chatVars,
                   uploadVars, listVars>>

\* The awaited add or delete resolved: the collection has changed.
writeResolved(w) ==
    /\ w \in pendingWrites
    /\ pendingWrites' = pendingWrites \ {w}
    /\ announcementDocs' = IF w.op = "add"
                           THEN announcementDocs \cup {w.id}
                           ELSE announcementDocs \ {w.id}
    /\ UNCHANGED <<user, appLoading, currentView, postCount, lastInvoked>>
    /\ UNCHANGED <<rvVars, avVars, wavVars, quantVars, ttsVars, chatVars,
                   uploadVars, listVars>>

\* The awaited add or delete was rejected: the catch logs it.
writeRejected(w) ==
    /\ w \in pendingWrites
    /\ pendingWrites' = pendingWrites \ {w}
    /\ UNCHANGED <<user, appLoading, currentView, announcementDocs, postCount,
                   lastInvoked>>
    /\ UNCHANGED <<rvVars, avVars, wavVars, quantVars, ttsVars, chatVars,
                   uploadVars, listVars>>

AppNext ==
    \/ \E u \in Users \cup {SignedOut} : onAuthStateChanged(u)
    \/ \E v \in ViewTypes : onViewChange(v)
    \/ handlePost
    \/ \E id \in PostIds, confirmed \in BOOLEAN : handleDelete(id, confirmed)
    \/ \E w \in pendingWrites : writeResolved(w)
    \/ \E w \in pendingWrites : writeRejected(w)

RestIdle == TtsIdle /\ ChatInit /\ UploadInit /\ ListInit /\ AppInit

(***************************************************************************)
(* Specifications                                                          *)
(***************************************************************************)
WavIdle ==
    /\ wavBuffer = PatternBuffer(0, 1, 24000, 0)
    /\ wavOut = <<>>
    /\ wavQuantized = {}
    /\ wavPc = "ready"

AudioIdle == RVInit /\ AVInit /\ WavIdle /\ QuantIdle

InitRV == RVInit /\ AVInit /\ WavIdle /\ QuantIdle /\ RestIdle
InitAV == RVInit /\ AVInit /\ WavIdle /\ QuantIdle /\ RestIdle
InitWav == RVInit /\ AVInit /\ WavInit /\ QuantIdle /\ RestIdle
InitQuant == RVInit /\ AVInit /\ WavIdle /\ QuantInit /\ RestIdle
InitTTS == AudioIdle /\ TtsInit /\ ChatInit /\ UploadInit /\ ListInit /\ AppInit
InitChat == AudioIdle /\ TtsIdle /\ ChatInit /\ UploadInit /\ ListInit /\ AppInit
InitUpload == AudioIdle /\ TtsIdle /\ ChatInit /\ UploadInit /\ ListInit /\ AppInit
InitList == AudioIdle /\ TtsIdle /\ ChatInit /\ UploadInit /\ ListInit /\ AppInit
InitApp == AudioIdle /\ TtsIdle /\ ChatInit /\ UploadInit /\ ListInit /\ AppInit

SpecRV == InitRV /\ [][RVNext]_vars
SpecAV == InitAV /\ [][AVNext]_vars
SpecWav == InitWav /\ [][WavNext]_vars
SpecQuant == InitQuant /\ [][QuantNext]_vars
SpecTTS == InitTTS /\ [][TtsNext]_vars
SpecChat == InitChat /\ [][ChatNext]_vars
SpecUpload == InitUpload /\ [][UploadNext]_vars
SpecList == InitList /\ [][ListNext]_vars
SpecApp == InitApp /\ [][AppNext]_vars

\* The chat view with its callbacks scheduled: the stop event of the recorder
\* and the load event of the reader are delivered, and the transcription call
\* settles.
SpecChatFair ==
    /\ SpecChat
    /\ WF_vars(onstop)
    /\ WF_vars(onloadend)
    /\ WF_vars(\E text \in Transcripts : transcribeResolved(text))
    /\ WF_vars(transcribeRejected)
    /\ WF_vars(dismissChatAlert)

(***************************************************************************)
(* Properties                                                              *)
(***************************************************************************)

\* Reading the encoder's output: the little-endian int16 at a byte offset,
\* n bytes from an offset, and the little-endian bytes of a value >= 0.
Int16At(out, at) ==
    LET u == out[at] + 256 * out[at + 1]
    IN  IF u >= 32768 THEN u - 65536 ELSE u
BytesAt(out, at, n) == [k \in 1..n |-> out[at + k - 1]]
LE16(v) == <<v % 256, (v \div 256) % 256>>
LE32(v) == <<v % 256, (v \div 256) % 256, (v \div 65536) % 256,
             (v \div 16777216) % 256>>
Encoded == wavPc = "done"
Frames == wavBuffer.length
Chans == wavBuffer.numberOfChannels

\* C1: in the resource view at most one audio stream is playing at any
\* instant, for every interleaving of play requests, generation completions,
\* end-of-stream/error callbacks, stop and back navigation.
C1_AtMostOneStream ==
    mounted => Cardinality(Playing(audios)) <= 1

\* C2: in the resource view Generating (generatingAudioId non-null) and
\* Playing (playingResourceId non-null) are never true together.
C2_GeneratingPlayingExclusive ==
    mounted => ~(generatingAudioId # Null /\ playingResourceId # Null)

\* C3: in the resource view, whenever the controller is Generating(id) or
\* Playing(id), id is the id of the most recent request, and that request did
\* not toggle the id off.
C3_MostRecentRequest ==
    mounted =>
        \A id \in ResourceIds :
            (generatingAudioId = id \/ playingResourceId = id)
                => lastRequest = [rid |-> id, off |-> FALSE]

\* C4: in the announcements list at most one announcement audio stream is
\* playing at any instant: starting one stops the one started before.
C4_AtMostOneAnnouncementStream ==
    Cardinality(Playing(avAudios)) <= 1

\* C5: the 1-channel, 4-frame buffer [0.0, 0.5, -0.5, 1.0] at 24000 Hz encodes
\* to 52 bytes whose int16 values at offsets 44, 46, 48, 50 are 0, 16383,
\* -16384, 32767.
C5Buffer ==
    [numberOfChannels |-> 1, sampleRate |-> 24000, length |-> 4,
     channels |-> <<<<0, SampleDen \div 2, -(SampleDen \div 2), SampleDen>>>>]
C5_RoundTripScenario ==
    (Encoded /\ wavBuffer = C5Buffer) =>
        /\ DOMAIN wavOut = 0..51
        /\ Int16At(wavOut, 44) = 0
        /\ Int16At(wavOut, 46) = 16383
        /\ Int16At(wavOut, 48) = -16384
        /\ Int16At(wavOut, 50) = 32767

\* C6: for every frame f < N and channel c < C the quantized sample of
\* channel c at frame f is the int16 at byte offset 44 + 2*(f*C + c).
C6_AllFramesInterleaved ==
    Encoded =>
        \A f \in 0..(Frames - 1) : \A c \in 0..(Chans - 1) :
            Int16At(wavOut, 44 + 2 * (f * Chans + c))
                = Quantize(wavBuffer.channels[c + 1][f + 1])

\* C7: bytes 36-39 are "data" and bytes 40-43 are the little-endian u32
\* N*C*2.
C7_DataChunkHeader ==
    Encoded =>
        /\ BytesAt(wavOut, 36, 4) = <<100, 97, 116, 97>>
        /\ BytesAt(wavOut, 40, 4) = LE32(Frames * Chans * 2)

\* C8: every sample is clamped to [-1,1], multiplied by 32768 when negative
\* and by 32767 otherwise, and truncated toward zero.
C8Quantized(s) ==
    LET c == IF s < -SampleDen THEN -SampleDen
             ELSE IF s > SampleDen THEN SampleDen ELSE s
    IN  IF c < 0 THEN -((-c * 32768) \div SampleDen)
                 ELSE (c * 32767) \div SampleDen
C8_AsymmetricScale ==
    \A p \in wavQuantized : p[2] = C8Quantized(p[1])

\* C9: the output has exactly 44 + N*C*2 bytes.
C9_OutputLength ==
    Encoded => DOMAIN wavOut = 0..(44 + Frames * Chans * 2 - 1)
C9_Witness ==
    Encoded /\ Frames = MaxFrames /\ Chans = MaxChannels

\* C10: bytes 0-35 are "RIFF", u32 total length - 8, "WAVE", "fmt ", u32 16,
\* u16 1, u16 C, u32 R, u32 R*2*C, u16 2*C, u16 16, little-endian, at offsets
\* 0, 4, 8, 12, 16, 20, 22, 24, 28, 32, 34.
C10_HeaderLayout ==
    Encoded =>
        LET R == wavBuffer.sampleRate
            total == 44 + Frames * Chans * 2
        IN  /\ BytesAt(wavOut, 0, 4) = <<82, 73, 70, 70>>
            /\ BytesAt(wavOut, 4, 4) = LE32(total - 8)
            /\ BytesAt(wavOut, 8, 4) = <<87, 65, 86, 69>>
            /\ BytesAt(wavOut, 12, 4) = <<102, 109, 116, 32>>
            /\ BytesAt(wavOut, 16, 4) = LE32(16)
            /\ BytesAt(wavOut, 20, 2) = LE16(1)
            /\ BytesAt(wavOut, 22, 2) = LE16(Chans)
            /\ BytesAt(wavOut, 24, 4) = LE32(R)
            /\ BytesAt(wavOut, 28, 4) = LE32(R * 2 * Chans)
            /\ BytesAt(wavOut, 32, 2) = LE16(2 * Chans)
            /\ BytesAt(wavOut, 34, 2) = LE16(16)
C10_Witness ==
    /\ Encoded
    /\ Chans = MaxChannels
    /\ wavBuffer.sampleRate = 48000
    /\ Frames > 0

\* Re-scaling the emitted value q by the asymmetric rule gives q / QScale(q);
\* its distance from the sample k / FineDen is
\* QErrNum(k, q) / (FineDen * QScale(q)).
QScale(q) == IF q < 0 THEN 32768 ELSE 32767
QErrNum(k, q) ==
    LET d == k * QScale(q) - q * FineDen
    IN  IF d < 0 THEN -d ELSE d
Quantized == qPc = "done"

C12_FirstWriterWins ==
    [][\A a \in AnnouncementIds :
          audioMap[a] # Null => audioMap'[a] = audioMap[a]]_vars

\* The resource view is Idle: nothing playing, nothing generating, no active
\* stream.
RVIdle ==
    /\ mounted
    /\ playingResourceId = Null
    /\ generatingAudioId = Null
    /\ currentAudioRef = Null

\* The stream the ref holds is a playing stream of resource r with url u.
ActiveStream(as, ref, r, u) ==
    /\ ref \in DOMAIN as
    /\ as[ref] = [rid |-> r, url |-> u, st |-> "playing"]

\* C13: the four steps of the request / success / stop / replay scenario of
\* the resource view.  From Idle with no entry for A, a request for A makes A
\* Generating and calls the generator once; its success makes A Playing and
\* stores the handle; a request for A while A is Playing returns to Idle and
\* stops the stream; a request for A from Idle with A cached plays the cached
\* handle and calls the generator not at all.
C13_Scenario ==
    [][/\ \A r \in ResourceIds :
            (RVIdle /\ audioCache[r] = Null /\ handlePlayTTS(r)) =>
                /\ generatingAudioId' = r
                /\ playingResourceId' = Null
                /\ genCount' = genCount + 1
                /\ \E g \in inFlight' \ inFlight : g.rid = r
                /\ audios' = audios
       /\ \A g \in inFlight :
            (mounted /\ generatingAudioId = g.rid /\ GenerationSuccess(g)) =>
                /\ playingResourceId' = g.rid
                /\ generatingAudioId' = Null
                /\ audioCache'[g.rid] = g.url
                /\ ActiveStream(audios', currentAudioRef', g.rid, g.url)
       /\ \A r \in ResourceIds :
            (playingResourceId = r /\ generatingAudioId = Null
                /\ handlePlayTTS(r)) =>
                /\ RVIdle'
                /\ currentAudioRef \in DOMAIN audios
                /\ audios'[currentAudioRef].st = "paused"
       /\ \A r \in ResourceIds :
            (RVIdle /\ audioCache[r] # Null /\ handlePlayTTS(r)) =>
                /\ playingResourceId' = r
                /\ generatingAudioId' = Null
                /\ genCount' = genCount
                /\ inFlight' = inFlight
                /\ ActiveStream(audios', currentAudioRef', r, audioCache[r])
      ]_vars
\* The end of the scenario: one generation, the first stream of A stopped, the
\* second stream of A playing the cached handle.
C13_Witness ==
    /\ mounted
    /\ genCount = 1
    /\ inFlight = {}
    /\ playingResourceId # Null
    /\ audioCache[playingResourceId] # Null
    /\ Len(audios) = 2
    /\ audios[1] = [rid |-> playingResourceId,
                    url |-> audioCache[playingResourceId], st |-> "paused"]
    /\ currentAudioRef = 2
    /\ ActiveStream(audios, 2, playingResourceId, audioCache[playingResourceId])

\* C14: in the resource view a request for the id that is playing stops its
\* stream (paused, ref cleared, playingResourceId null), starts no stream and
\* calls the generator not at all.
C14_ToggleOff ==
    [][\A r \in ResourceIds :
          (playingResourceId = r /\ handlePlayTTS(r)) =>
              /\ currentAudioRef \in DOMAIN audios
              /\ audios[currentAudioRef].rid = r
              /\ audios[currentAudioRef].st = "playing"
              /\ audios'[currentAudioRef].st = "paused"
              /\ currentAudioRef' = Null
              /\ playingResourceId' = Null
              /\ Len(audios') = Len(audios)
              /\ Playing(audios') = Playing(audios) \ {currentAudioRef}
              /\ genCount' = genCount
              /\ inFlight' = inFlight]_vars
\* The request for the playing id has just been handled.
C14_Witness ==
    /\ mounted
    /\ lastRequest.off
    /\ playingResourceId = Null
    /\ currentAudioRef = Null
    /\ \E i \in DOMAIN audios :
           audios[i].rid = lastRequest.rid /\ audios[i].st = "paused"

\* C15 (as stated): in the announcement view a request for the announcement
\* that is playing toggles it off: its stream is stopped and playingId
\* becomes null.
C15_AnnouncementToggleOff ==
    [][\A a \in AnnouncementIds :
          (/\ playingId = a
           /\ \E i \in Playing(avAudios) : avAudios[i].rid = a
           /\ avRequestPlaying(a)) =>
              /\ playingId' = Null
              /\ \A i \in DOMAIN avAudios :
                     avAudios[i].rid = a => avAudios'[i].st # "playing"]_vars

\* C16 (as stated): after the resource view is unmounted no stream it
\* started is playing.
C16_SilentAfterUnmount ==
    ~mounted => Playing(audios) = {}

\* C17: when a generation for id fails, the error message is surfaced, id is
\* no longer Generating, no cache entry is added, no stream is started, and
\* the generator is called again only by a user request.
C17_FailureSurfaced ==
    [][/\ \A g \in inFlight :
            (mounted /\ GenerationFailure(g)) =>
                /\ alertMsg' = "TTS Error"
                /\ generatingAudioId' # g.rid
                /\ audioCache' = audioCache
                /\ audios' = audios
                /\ currentAudioRef' = currentAudioRef
                /\ genCount' = genCount
                /\ inFlight' = inFlight \ {g}
       /\ (genCount' # genCount \/ ~(inFlight' \subseteq inFlight)) =>
              \E r \in ResourceIds : handlePlayTTS(r)
      ]_vars
\* The only generation made has failed and its message is on screen.
C17_Witness ==
    /\ mounted
    /\ alertMsg = "TTS Error"
    /\ genCount = 1
    /\ inFlight = {}
    /\ generatingAudioId = Null
    /\ audios = <<>>
    /\ \A r \in ResourceIds : audioCache[r] = Null

\* The announcement view's failure branch: the message is surfaced, no entry
\* is added and no stream is started; closing the message clears playingId.
C17_AnnouncementFailure ==
    [][/\ \A g \in avInFlight :
            avGenerationFailure(g) =>
                /\ avAlertMsg' = "TTS Error"
                /\ audioMap' = audioMap
                /\ avAudios' = avAudios
                /\ avGenCount' = avGenCount
                /\ avInFlight' = avInFlight \ {g}
       /\ avDismissAlert => playingId' = Null
       /\ avGenCount' # avGenCount =>
              \E a \in AnnouncementIds : avHandlePlayTTS(a)
      ]_vars

\* C18: in the resource view, when the stream of the playing id signals ended
\* or error, playingResourceId becomes null and the active stream ref is
\* released.
C18_EndedReleases ==
    [][\A i \in DOMAIN audios :
          (/\ mounted
           /\ i = currentAudioRef
           /\ playingResourceId = audios[i].rid
           /\ AudioEnded(i) \/ AudioError(i)) =>
              /\ playingResourceId' = Null
              /\ currentAudioRef' = Null
              /\ audios'[i].st \in {"ended", "error"}]_vars
\* The only stream of the view was the active one and has run to its end.
C18_Witness ==
    /\ mounted
    /\ Len(audios) = 1
    /\ audios[1].st = "ended"
    /\ playingResourceId = Null
    /\ currentAudioRef = Null

\* C19: the generator is called for id only when the cache has no entry for
\* id at the time of the request.
C19_GenerateOnlyOnMiss ==
    [][/\ \A g \in inFlight' \ inFlight : audioCache[g.rid] = Null
       /\ genCount' # genCount =>
              \E g \in inFlight' \ inFlight : audioCache[g.rid] = Null
      ]_vars
\* A request for a cached id served with no further generation.
C19_Witness ==
    /\ mounted
    /\ ~lastRequest.off
    /\ lastRequest.rid # Null
    /\ audioCache[lastRequest.rid] # Null
    /\ playingResourceId = lastRequest.rid
    /\ genCount = 1
    /\ Len(audios) = 2
    /\ currentAudioRef = 2

\* C20: the cache never evicts, and an entry is added for id only by the
\* success of a generation made for id.
C20_CacheGrowsOnSuccess ==
    [][\A r \in ResourceIds :
          /\ audioCache[r] # Null => audioCache'[r] # Null
          /\ (audioCache[r] = Null /\ audioCache'[r] # Null) =>
                 \E g \in inFlight :
                     /\ g.rid = r
                     /\ GenerationSuccess(g)
                     /\ audioCache'[r] = g.url]_vars
\* Two resources have an entry: the first one outlived the second one's
\* arrival.
C20_Witness ==
    /\ mounted
    /\ \E r1, r2 \in ResourceIds :
           r1 # r2 /\ audioCache[r1] # Null /\ audioCache[r2] # Null

\* C22 (as stated): an ended or error callback of a stream that is not the
\* current one changes neither the playing id nor the active stream ref
\* while the current stream is playing.
C22_StaleCallbackIgnored ==
    [][\A i \in DOMAIN audios :
          (/\ mounted
           /\ currentAudioRef \in Playing(audios)
           /\ i # currentAudioRef
           /\ AudioEnded(i) \/ AudioError(i)) =>
              /\ playingResourceId' = playingResourceId
              /\ currentAudioRef' = currentAudioRef]_vars

\* C23: in the mounted resource view playingResourceId is non-null exactly
\* when currentAudioRef holds an element, and that element was created for
\* playingResourceId.
C23_PlayingIdMatchesRef ==
    mounted =>
        /\ playingResourceId # Null <=> currentAudioRef # Null
        /\ currentAudioRef # Null =>
               /\ currentAudioRef \in DOMAIN audios
               /\ audios[currentAudioRef].rid = playingResourceId
\* A second stream has replaced a first one of another resource.
C23_Witness ==
    /\ mounted
    /\ Len(audios) = 2
    /\ currentAudioRef = 2
    /\ playingResourceId = audios[2].rid
    /\ audios[1].rid # audios[2].rid
    /\ audios[1].st = "paused"

\* A property of the response object is set: it is there and it is not empty.
IsSet(response, name) == name \in DOMAIN response /\ response[name] # ""

\* C21: generateTTS never rejects; for every outcome of the external calls it
\* resolves with an object in which exactly one of audioUrl and error is set,
\* and error, when set, is a non-empty message.
C21_ResolvesWithOneOf ==
    ttsPc # "ready" =>
        /\ ttsPc = "resolved"
        /\ IsSet(ttsResult, "audioUrl") # IsSet(ttsResult, "error")
        /\ DOMAIN ttsResult \in {{"audioUrl"}, {"error"}}
        /\ "error" \in DOMAIN ttsResult => ttsResult.error # ""
\* The external call threw a value with no message and the promise resolved
\* with the fallback message.
C21_Witness ==
    /\ ttsPc = "resolved"
    /\ ttsApi.kind = "rejected"
    /\ MessageOf(ttsApi.thrown) = ""
    /\ ttsResult = [error |-> "Failed to generate speech"]

\* C24 (as stated): in the chat view every recording that was stopped
\* eventually leaves the transcribing state, whatever transcribeAudio does.
C24_TranscribingEnds ==
    isTranscribing ~> ~isTranscribing

\* C25 (as stated): once handleSubmit has settled, isLoading is false and no
\* message of the list has isStreaming = true.
C25_NoStreamingAfterSettle ==
    submitPc = "idle" =>
        /\ ~isLoading
        /\ \A i \in DOMAIN messages : ~messages[i].isStreaming

\* C26 (as stated): an item removed from the upload queue while its status
\* is pending is never written to the resources collection.
C26_RemovedNeverWritten ==
    removedPending \cap written = {}

\* The items the running batches took when they started.
BatchItems == UNION {{batches[b].items[k] : k \in DOMAIN batches[b].items} :
                        b \in DOMAIN batches}

\* C28: when an Upload All batch finishes, isGlobalUploading is false, every
\* item the batch took that is still in the queue has status success or
\* error, and no item is left in status uploading.
C28_BatchEndsSettled ==
    [][(isGlobalUploading /\ batches' = <<>>) =>
          /\ ~isGlobalUploading'
          /\ \A i \in DOMAIN queue' :
                 /\ queue'[i].status # "uploading"
                 /\ queue'[i].id \in BatchItems =>
                        queue'[i].status \in {"success", "error"}]_vars
\* A batch has finished with one item uploaded and one in error.
C28_Witness ==
    /\ ~isGlobalUploading
    /\ batches = <<>>
    /\ \E i, j \in DOMAIN queue :
           queue[i].status = "success" /\ queue[j].status = "error"

\* The item whose db add batch b awaits.
Current(bs, b) == bs[b].items[bs[b].pos]

\* C29: at most one batch runs at a time, and an item is never submitted to
\* the database after its upload succeeded.
C29_NoReupload ==
    [][/\ Len(batches') <= 1
       /\ \A b \in DOMAIN batches' :
            (b \notin DOMAIN batches \/ batches'[b] # batches[b]) =>
                Current(batches', b) \notin written']_vars
\* A later batch runs beside an item that an earlier batch uploaded, and has
\* not taken it.
C29_Witness ==
    /\ isGlobalUploading
    /\ Len(batches) = 1
    /\ \E i \in DOMAIN queue :
           /\ queue[i].status = "success"
           /\ queue[i].id \in written
           /\ queue[i].id \notin BatchItems

\* C27 (as stated): whenever step is 'search' and loading is false after the
\* search has completed, every resource of the list on screen matches the
\* query of that search.
C27_SearchListMatches ==
    (step = "search" /\ ~loading /\ lastSearch.done) =>
        \A d \in Docs : d.id \in resources => Matches(d, lastSearch.query)

\* The user of the claim: signed out, or signed in with another email.
NotAdminUser == user = SignedOut \/ user.email # ADMIN_EMAIL

\* C30: while the user's email is not ADMIN_EMAIL (signed out included), no
\* step issues an add or a delete on the announcements collection (handlePost
\* and handleDelete return before the call), and the admin upload view is
\* never rendered: the 'admin' view shows Access Denied.
C30_NonAdminGated ==
    /\ [](NotAdminUser => /\ RenderView # "AdminUploadView"
                          /\ (~appLoading /\ currentView = "admin"
                                 => RenderView = "Access Denied"))
    /\ [][NotAdminUser => pendingWrites' \subseteq pendingWrites]_vars

C30_Witness ==
    /\ NotAdminUser
    /\ RenderView = "Access Denied"
    /\ lastInvoked.handler = "handleDelete"
    /\ lastInvoked.user \in Users \ {[email |-> ADMIN_EMAIL]}
    /\ ~lastInvoked.called
    /\ announcementDocs # {}

====
